---- MODULE Spec2Model ----
(***************************************************************************)
(* GameStash-server: offer resolution (utils/bestOfferForProduct.js, the   *)
(* offer and product controllers, the expiry cron job) and the order       *)
(* pricing and lifecycle engine (order controller and Order model).        *)
(*                                                                         *)
(* Money is held in paise (1/100 rupee) as integers, so a price with two   *)
(* decimals is exact.  A percentage discount of a price is held in 1/100   *)
(* paisa ("fine" units) wherever the code keeps the unrounded quotient.    *)
(* JavaScript numbers are modelled as exact decimals; Math.round and       *)
(* toFixed round half up.                                                  *)
(***************************************************************************)
EXTENDS Integers, Sequences, FiniteSets, TLC

\* ------------------------------------------------------------------ bounds
MaxOffers == 2
MaxQty == 2
MaxListLen == 2
MaxOps == 5

\* ------------------------------------------------------------ value domains
Products == {1, 2}
Brands == {1}
Offers == 1..MaxOffers
Prices == {1000, 1505}
PctValues == {10}
AmountValues == {100, 150}

\* A nullable field: <<>> is null, <<v>> holds v.
Null == <<>>
Some(v) == <<v>>
IsNull(x) == x = <<>>
Val(x) == x[1]

\* ------------------------------------------------------------------ state
VARIABLES
  products,   \* Product collection: product id -> document
  offers,     \* Offer collection: offer id -> document
  ops,        \* number of requests and timer events handled so far
  resolved,   \* products selectBestOfferForProduct stored a result for in the last request
  orders,     \* Order collection: sequence of order documents, in creation order
  wallets,    \* Wallet collection: user id -> document
  coupons,    \* Coupon collection: coupon id -> document
  requests,   \* placeOrder requests in flight: request id -> locals and position
  response,   \* the last request handled and its outcome
  audit       \* history: per order, stock units held and refunds credited per item

vars == <<products, offers, ops, resolved, orders, wallets, coupons, requests,
          response, audit>>
orderSide == <<orders, wallets, coupons, requests, response, audit>>

\* One more request is handled; runs are explored up to MaxOps requests.
Handled == ops < MaxOps /\ ops' = ops + 1

\* Every product of the catalogue belongs to the one brand.
BrandOf(p) == 1

\* A product document as ProductSchema creates it: bestOffer defaults to
\* null, discountedPrice to 0, reservedStock to 0.
NewProduct(price, stock) ==
  [exists |-> TRUE, price |-> price, brand |-> 1, stock |-> stock,
   reservedStock |-> 0, applicableOffers |-> <<>>,
   bestOffer |-> Null, discountedPrice |-> Some(0)]

NoProduct ==
  [exists |-> FALSE, price |-> 0, brand |-> 1, stock |-> 0,
   reservedStock |-> 0, applicableOffers |-> <<>>,
   bestOffer |-> Null, discountedPrice |-> Null]

NoOffer ==
  [exists |-> FALSE, type |-> "Product", targetId |-> 1,
   discountType |-> "percentage", discountValue |-> 0,
   isActive |-> FALSE, phase |-> "current"]

\* ------------------------------------------------------- sequence helpers
RECURSIVE SeqFilter(_, _)
SeqFilter(s, keep) ==
  IF s = <<>> THEN <<>>
  ELSE IF Head(s) \in keep THEN <<Head(s)>> \o SeqFilter(Tail(s), keep)
       ELSE SeqFilter(Tail(s), keep)

SeqRange(s) == {s[i] : i \in 1..Len(s)}

\* $addToSet: append unless present.
AddToSet(s, x) == IF x \in SeqRange(s) THEN s ELSE Append(s, x)

\* $pull / filter: remove every occurrence of the ids in xs.
Pull(s, xs) == SeqFilter(s, SeqRange(s) \ xs)

\* ids of a set in ascending order (the order find() returns documents in).
RECURSIVE SetToSeq(_)
SetToSeq(S) ==
  IF S = {} THEN <<>>
  ELSE LET m == CHOOSE x \in S : \A y \in S : x <= y
       IN <<m>> \o SetToSeq(S \ {m})

\* -------------------------------------------------------- offer resolution
\* The discount of an offer on a price, in fine units (1/100 paisa):
\* price * value / 100 for a percentage, value for an amount.
DiscountFine(price, off) ==
  IF off.discountType = "percentage" THEN price * off.discountValue
  ELSE off.discountValue * 100

\* Number(x.toFixed(2)) of a non-negative amount given in fine units: paise.
ToFixed2(fine) == (fine + 50) \div 100

MaxInt(a, b) == IF a >= b THEN a ELSE b
MinInt(a, b) == IF a <= b THEN a ELSE b

\* BestLoop with the comparison weakened to >=: the last of equals wins.
RECURSIVE BestLoopLastWins(_, _, _, _)
BestLoopLastWins(list, offs, price, acc) ==
  IF list = <<>> THEN acc
  ELSE LET o == Head(list)
           d == DiscountFine(price, offs[o])
       IN IF offs[o].isActive /\ d >= acc.bestDiscount
          THEN BestLoopLastWins(Tail(list), offs, price,
                        [best |-> Some(o), bestDiscount |-> d,
                         newDiscountedPrice |-> MaxInt(price * 100 - d, 0)])
          ELSE BestLoopLastWins(Tail(list), offs, price, acc)

\* The loop of selectBestOfferForProduct over the populated, active
\* applicableOffers: acc = [best, bestDiscount, newDiscountedPrice].
RECURSIVE BestLoop(_, _, _, _)
BestLoop(list, offs, price, acc) ==
  IF list = <<>> THEN acc
  ELSE LET o == Head(list)
           d == DiscountFine(price, offs[o])
       IN IF offs[o].isActive /\ d > acc.bestDiscount
          THEN BestLoop(Tail(list), offs, price,
                        [best |-> Some(o), bestDiscount |-> d,
                         newDiscountedPrice |-> MaxInt(price * 100 - d, 0)])
          ELSE BestLoop(Tail(list), offs, price, acc)

\* selectBestOfferForProduct(productId) on the collections prods, offs:
\* the product collection after the call.
selectBestOfferForProduct(prods, offs, p) ==
  IF ~prods[p].exists THEN prods
  ELSE LET active == SeqFilter(prods[p].applicableOffers,
                               {o \in Offers : offs[o].exists /\ offs[o].isActive})
           r == BestLoop(active, offs, prods[p].price,
                         [best |-> Null, bestDiscount |-> 0,
                          newDiscountedPrice |-> prods[p].price * 100])
       IN [prods EXCEPT
             ![p].bestOffer = r.best,
             ![p].discountedPrice =
                IF IsNull(r.best) THEN Null ELSE Some(ToFixed2(r.newDiscountedPrice))]

\* selectBestOfferForProduct for each product of a sequence, in order.
RECURSIVE ResolveAll(_, _, _)
ResolveAll(prods, offs, ps) ==
  IF ps = <<>> THEN prods
  ELSE ResolveAll(selectBestOfferForProduct(prods, offs, Head(ps)), offs, Tail(ps))

\* ------------------------------------------------- product administration
ProductsOfBrand(prods, b) == {p \in Products : prods[p].exists /\ prods[p].brand = b}

\* ProductSchema.pre('save') for a new document, then the insert: the active
\* brand offers become applicableOffers and selectBestOfferForProduct runs
\* against the collection, which does not hold the new product yet.
CreateProduct(prods, offs, p, price, stock) ==
  LET brandOffers == SetToSeq({o \in Offers : /\ offs[o].exists
                                              /\ offs[o].type = "Brand"
                                              /\ offs[o].targetId = BrandOf(p)
                                              /\ offs[o].isActive})
      doc == [NewProduct(price, stock) EXCEPT !.applicableOffers = brandOffers]
      afterHook == IF brandOffers # <<>>
                   THEN selectBestOfferForProduct(prods, offs, p)
                   ELSE prods
  IN [afterHook EXCEPT ![p] = doc]

InitStock == 2

\* addProduct: Product.create with the validated fields.
AddProduct(p, price) ==
  /\ Handled
  /\ ~products[p].exists
  /\ \A q \in Products : q < p => products[q].exists
  /\ products' = CreateProduct(products, offers, p, price, InitStock)
  /\ resolved' = {}
  /\ UNCHANGED <<offers, orderSide>>

\* editProduct with a new price: the fields are copied and the document saved.
EditProductDoc(prods, p, price) == [prods EXCEPT ![p].price = price]

EditProduct(p, price) ==
  /\ Handled
  /\ products[p].exists
  /\ price # products[p].price
  /\ products' = EditProductDoc(products, p, price)
  /\ resolved' = {}
  /\ UNCHANGED <<offers, orderSide>>

\* --------------------------------------------------- offer administration
TargetExists(prods, type, t) ==
  IF type = "Product" THEN t \in Products /\ prods[t].exists ELSE t \in Brands

\* The products an offer of this type and target applies to.
TargetProducts(prods, type, t) ==
  IF type = "Product"
  THEN (IF t \in Products /\ prods[t].exists THEN {t} ELSE {})
  ELSE ProductsOfBrand(prods, t)

\* f applied to applicableOffers of every product of ps.
MapOffers(prods, ps, f(_)) ==
  [p \in Products |->
     IF p \in ps THEN [prods[p] EXCEPT !.applicableOffers = f(@)] ELSE prods[p]]

\* addOffer after validation: Offer.create, $push to every target product,
\* then selectBestOfferForProduct for each.
AddOfferEffect(prods, offs, o, type, t, dtype, dval, startsToday) ==
  LET offs2 == [offs EXCEPT ![o] =
                  [exists |-> TRUE, type |-> type, targetId |-> t,
                   discountType |-> dtype, discountValue |-> dval,
                   isActive |-> startsToday,
                   phase |-> IF startsToday THEN "current" ELSE "future"]]
      ps == TargetProducts(prods, type, t)
      LOCAL push(s) == Append(s, o)
  IN [offs |-> offs2, affected |-> ps,
      prods |-> ResolveAll(MapOffers(prods, ps, push), offs2, SetToSeq(ps))]

NextOfferId == CHOOSE o \in Offers : ~offers[o].exists /\ \A q \in Offers : q < o => offers[q].exists

AddOffer(type, t, dtype, dval, startsToday) ==
  /\ Handled
  /\ \E o \in Offers : ~offers[o].exists
  /\ TargetExists(products, type, t)
  /\ ~(type = "Product" /\ dtype = "amount" /\ dval > products[t].price)
  /\ ~(dtype # "percentage" /\ type = "Brand")
  /\ LET r == AddOfferEffect(products, offers, NextOfferId, type, t, dtype, dval, startsToday)
     IN /\ offers' = r.offs
        /\ products' = r.prods
        /\ resolved' = r.affected
  /\ UNCHANGED orderSide

\* editOffer after validation.  start is "keep", "today" or "future".
EditOfferEffect(prods, offs, o, type, t, dtype, dval, start) ==
  LET old == offs[o]
      isTargetChanged == \/ type # old.type
                         \/ t # old.targetId
                         \/ dval # old.discountValue
                         \/ dtype # old.discountType
      phase2 == IF start = "keep" THEN old.phase
                ELSE IF start = "today" THEN "current" ELSE "future"
      offs2 == [offs EXCEPT ![o] =
                  [exists |-> TRUE,
                   type |-> IF isTargetChanged THEN type ELSE old.type,
                   targetId |-> IF isTargetChanged THEN t ELSE old.targetId,
                   discountType |-> dtype, discountValue |-> dval,
                   isActive |-> phase2 # "future", phase |-> phase2]]
      oldPs == TargetProducts(prods, old.type, old.targetId)
      newPs == TargetProducts(prods, type, t)
      LOCAL pull(s) == Pull(s, {o})
      LOCAL add(s) == AddToSet(s, o)
      prods2 == IF isTargetChanged
                THEN MapOffers(MapOffers(prods, oldPs, pull), newPs, add)
                ELSE prods
      affected == IF isTargetChanged THEN oldPs \cup newPs ELSE {}
  IN [offs |-> offs2, affected |-> affected,
      prods |-> ResolveAll(prods2, offs2, SetToSeq(affected))]

EditOffer(o, type, t, dtype, dval, start) ==
  /\ Handled
  /\ offers[o].exists
  /\ LET old == offers[o]
         isTargetChanged == \/ type # old.type
                            \/ t # old.targetId
                            \/ dval # old.discountValue
                            \/ dtype # old.discountType
         priceTarget == IF isTargetChanged THEN t ELSE old.targetId
     IN /\ isTargetChanged => TargetExists(products, type, t)
        /\ ~(type = "Brand" /\ dtype # "percentage")
        /\ ~(/\ type = "Product" /\ dtype = "amount"
             /\ priceTarget \in Products /\ products[priceTarget].exists
             /\ dval > products[priceTarget].price)
        /\ old.phase # "expired"
  /\ LET r == EditOfferEffect(products, offers, o, type, t, dtype, dval, start)
     IN /\ offers' = r.offs
        /\ products' = r.prods
        /\ resolved' = r.affected
  /\ UNCHANGED orderSide

\* toggleOfferList: isActive is flipped; a Product offer is $addToSet / $pull
\* on its target, a Brand offer is pushed to / filtered from every product of
\* the brand; every affected product is resolved again.
ToggleEffect(prods, offs, o) ==
  LET off == offs[o]
      active == ~off.isActive
      offs2 == [offs EXCEPT ![o].isActive = active]
      ps == TargetProducts(prods, off.type, off.targetId)
      LOCAL pull(s) == Pull(s, {o})
      LOCAL add(s) == AddToSet(s, o)
      LOCAL push(s) == Append(s, o)
      prods2 == IF ~active THEN MapOffers(prods, ps, pull)
                ELSE IF off.type = "Product" THEN MapOffers(prods, ps, add)
                ELSE MapOffers(prods, ps, push)
  IN [offs |-> offs2, affected |-> ps,
      prods |-> ResolveAll(prods2, offs2, SetToSeq(ps))]

\* The guard on the list length caps the duplicates a Brand toggle pushes.
ToggleOfferList(o) ==
  /\ Handled
  /\ offers[o].exists
  /\ \A p \in Products : Len(products[p].applicableOffers) < MaxListLen + 1
  /\ LET r == ToggleEffect(products, offers, o)
     IN /\ offers' = r.offs
        /\ products' = r.prods
        /\ resolved' = r.affected
  /\ UNCHANGED orderSide

\* expiredOffersJob: every offer whose endDate has passed is deactivated and
\* pulled from the products it applied to, which are then resolved again.
ExpiredSet(offs) == {o \in Offers : offs[o].exists /\ offs[o].phase = "expired"}

SweepEffect(prods, offs) ==
  LET expired == ExpiredSet(offs)
      offs2 == [o \in Offers |->
                  IF o \in expired THEN [offs[o] EXCEPT !.isActive = FALSE] ELSE offs[o]]
      affected == UNION {TargetProducts(prods, offs[o].type, offs[o].targetId) : o \in expired}
      LOCAL pull(s) == Pull(s, expired)
  IN [offs |-> offs2, affected |-> affected,
      prods |-> ResolveAll(MapOffers(prods, affected, pull), offs2, SetToSeq(affected))]

ExpiredOffersJob ==
  /\ Handled
  /\ ExpiredSet(offers) # {}
  /\ LET r == SweepEffect(products, offers)
     IN /\ offers' = r.offs
        /\ products' = r.prods
        /\ resolved' = r.affected
  /\ UNCHANGED orderSide

\* Time: an offer's start date is reached, then its end date passes.
TimePasses(o) ==
  /\ Handled
  /\ offers[o].exists
  /\ offers[o].phase # "expired"
  /\ offers' = [offers EXCEPT ![o].phase = IF @ = "future" THEN "current" ELSE "expired"]
  /\ resolved' = {}
  /\ UNCHANGED <<products, orderSide>>

OfferKinds ==
  {<<"Product", t, "percentage", v>> : t \in Products, v \in PctValues}
  \cup {<<"Product", t, "amount", v>> : t \in Products, v \in AmountValues}
  \cup {<<"Brand", b, "percentage", v>> : b \in Brands, v \in PctValues}

InitOffer ==
  /\ products = [p \in Products |-> NoProduct]
  /\ offers = [o \in Offers |-> NoOffer]
  /\ ops = 0
  /\ resolved = {}
  /\ orders = <<>>
  /\ wallets = [u \in {1, 2} |-> [exists |-> FALSE, balance |-> 0, transactions |-> <<>>]]
  /\ coupons = <<>>
  /\ requests = <<>>
  /\ response = [op |-> "none", error |-> "none"]
  /\ audit = <<>>

NextOffer ==
  \/ \E p \in Products, price \in Prices : AddProduct(p, price)
  \/ \E p \in Products, price \in Prices : EditProduct(p, price)
  \/ \E k \in OfferKinds, st \in BOOLEAN : AddOffer(k[1], k[2], k[3], k[4], st)
  \/ \E o \in Offers, k \in OfferKinds, start \in {"keep", "today", "future"} :
        EditOffer(o, k[1], k[2], k[3], k[4], start)
  \/ \E o \in Offers : ToggleOfferList(o)
  \/ ExpiredOffersJob
  \/ \E o \in Offers : TimePasses(o)

SpecOffer == InitOffer /\ [][NextOffer]_vars

\* ======================================================== orders: documents
\* (declared with the other variables at the head of the module)
Users == {1, 2}
Coupons == {1, 2}
NoSuchProduct == Cardinality(Products) + 1
NoSuchCoupon == Cardinality(Coupons) + 1

\* Math.round(n / d) for d > 0: the nearest integer, halves up.
RoundDiv(n, d) ==
  LET q == n \div d
      r == n % d
  IN IF 2 * r >= d THEN q + 1 ELSE q

\* Math.round of an amount in paise, to whole rupees (still in paise).
RoundRupee(x) == RoundDiv(x, 100) * 100

\* An order item whose totalPrice leaves the offer discount out.
NewItemUndiscounted(p, qty, price, discount) ==
  [product |-> p, quantity |-> qty, price |-> price, discount |-> discount,
   totalPrice |-> price * qty, status |-> "Pending",
   returnRequest |-> [requested |-> FALSE, approved |-> FALSE, responseSent |-> FALSE]]

\* An order item as orderItemSchema stores the snapshot placeOrder builds.
NewItem(p, qty, price, discount) ==
  [product |-> p, quantity |-> qty, price |-> price, discount |-> discount,
   totalPrice |-> (price - discount) * qty, status |-> "Pending",
   returnRequest |-> [requested |-> FALSE, approved |-> FALSE, responseSent |-> FALSE]]

Statuses(items) == {items[i].status : i \in 1..Len(items)}

RECURSIVE SumTotalPrice(_, _)
SumTotalPrice(items, skip) ==
  IF items = <<>> THEN 0
  ELSE (IF Head(items).status \in skip THEN 0 ELSE Head(items).totalPrice)
       + SumTotalPrice(Tail(items), skip)

\* OrderSchema.pre('save'), first part: finalPrice of the items that are not
\* Cancelled, less their share of the coupon discount.
HookFinalPrice(o, isModified) ==
  LET active == {i \in 1..Len(o.orderItems) : o.orderItems[i].status # "Cancelled"}
      currentTotalAmount == SumTotalPrice(o.orderItems, {"Cancelled"})
      currentCouponDiscount ==
        IF o.couponDiscount > 0 /\ o.totalAmount > 0
        THEN RoundDiv(currentTotalAmount * o.couponDiscount, o.totalAmount)
        ELSE 0
  IN IF active = {} THEN 0
     ELSE IF isModified THEN MaxInt(0, currentTotalAmount - currentCouponDiscount)
     ELSE o.finalPrice

\* The hook of the earlier Order model (models/order.model.js): items all
\* Delivered or Cancelled give Delivered, also when both are present.
DeriveStatusEarlier(st) ==
  IF st = {"Cancelled"} THEN "Cancelled"
  ELSE IF st = {"Returned"} THEN "Returned"
  ELSE IF st = {"Return Rejected"} THEN "Return Rejected"
  ELSE IF "Return Requested" \in st THEN "Return Requested"
  ELSE IF st \subseteq {"Delivered", "Cancelled"} THEN "Delivered"
  ELSE IF st \subseteq {"Shipped", "Cancelled"} THEN "Shipped"
  ELSE IF st \subseteq {"Processing", "Cancelled"} THEN "Processing"
  ELSE IF "Shipped" \in st /\ "Delivered" \in st THEN "Partially Delivered"
  ELSE IF "Cancelled" \in st /\ "Delivered" \in st THEN "Partially Cancelled"
  ELSE IF "Returned" \in st /\ ("Shipped" \in st \/ "Delivered" \in st)
       THEN "Partially Returned"
  ELSE IF "Delivered" \in st /\ "Return Rejected" \in st THEN "Delivered"
  ELSE IF "Shipped" \in st THEN "Shipped"
  ELSE "Processing"

\* OrderSchema.pre('save'), second part: orderStatus from the item statuses.
DeriveStatus(st) ==
  IF st = {"Cancelled"} THEN "Cancelled"
  ELSE IF st = {"Returned"} THEN "Returned"
  ELSE IF st = {"Return Rejected"} THEN "Return Rejected"
  ELSE IF "Return Requested" \in st THEN "Return Requested"
  ELSE IF st \subseteq {"Delivered", "Cancelled"}
       THEN (IF "Delivered" \in st /\ "Cancelled" \in st
             THEN "Partially Cancelled" ELSE "Delivered")
  ELSE IF st \subseteq {"Shipped", "Cancelled"} THEN "Shipped"
  ELSE IF st \subseteq {"Processing", "Cancelled"} THEN "Processing"
  ELSE IF "Shipped" \in st /\ "Delivered" \in st THEN "Partially Delivered"
  ELSE IF "Cancelled" \in st /\ "Delivered" \in st THEN "Partially Cancelled"
  ELSE IF "Returned" \in st /\ ("Shipped" \in st \/ "Delivered" \in st)
       THEN "Partially Returned"
  ELSE IF "Delivered" \in st /\ "Return Rejected" \in st THEN "Delivered"
  ELSE IF "Shipped" \in st THEN "Shipped"
  ELSE "Processing"

\* order.save(): the hook, then the write.  isModified is
\* this.isModified('orderItems').
SaveOrder(o, isModified) ==
  [o EXCEPT !.finalPrice = HookFinalPrice(o, isModified),
            !.orderStatus = DeriveStatus(Statuses(o.orderItems))]

\* A wallet as Wallet.create({ userId, transactions: [] }) stores it.
NewWallet == [exists |-> TRUE, balance |-> 0, transactions |-> <<>>]
NoWallet == [exists |-> FALSE, balance |-> 0, transactions |-> <<>>]

\* Wallet.findOne, or Wallet.create when there is none.
FindOrCreateWallet(ws, u) ==
  IF ws[u].exists THEN ws ELSE [ws EXCEPT ![u] = NewWallet]

\* A completed credit is pushed and added to the balance; wallet.save()
\* validates balance >= 0 (walletSchema min: 0).
CreditWallet(ws0, u, amount) ==
  LET ws == FindOrCreateWallet(ws0, u)
  IN [ws EXCEPT ![u].balance = @ + amount,
                ![u].transactions = Append(@, [type |-> "credit", amount |-> amount])]

\* The discount placeOrder takes from the populated bestOffer, at most the
\* price.  The prices ordered here are whole rupees, so a percentage of one is
\* a whole number of paise and the quotient is exact.
ItemDiscount(prod, offs) ==
  IF IsNull(prod.bestOffer) \/ ~offs[Val(prod.bestOffer)].exists THEN 0
  ELSE LET off == offs[Val(prod.bestOffer)]
           d == IF off.discountType = "percentage"
                THEN (prod.price * off.discountValue) \div 100
                ELSE off.discountValue
       IN MinInt(d, prod.price)

IsStored(prods, p) == p \in Products /\ prods[p].exists

\* ============================================================== placeOrder
RECURSIVE SumQty(_, _)
SumQty(items, p) ==
  IF items = <<>> THEN 0
  ELSE (IF Head(items).product = p THEN Head(items).quantity ELSE 0)
       + SumQty(Tail(items), p)

\* The collections the order handlers read and write.
\* audit is history kept beside the collections: for every order, the units of
\* each product's stock it holds (taken and not yet put back) and, for every
\* item, how many wallet credits have covered its price.
World(ps, cs, ws, os, au) ==
  [products |-> ps, coupons |-> cs, wallets |-> ws, orders |-> os, audit |-> au]

NewAudit(items) ==
  [held |-> [p \in Products |->
               SumQty(items, p)],
   refunds |-> [i \in 1..Len(items) |-> 0]]

NoCoupon ==
  [exists |-> FALSE, discountType |-> "amount", discountValue |-> 0,
   minOrderAmount |-> 0, maxDiscountAmount |-> Null, usageLimit |-> 1,
   perUserLimit |-> 1, usersUsed |-> <<>>, isActive |-> FALSE,
   inWindow |-> FALSE, version |-> 0]

CouponAt(cs, c) == IF c \in Coupons THEN cs[c] ELSE NoCoupon

\* coupon.usersUsed.findIndex(entry => entry.userId.equals(userId)); 0 for -1.
UserIndex(usersUsed, u) ==
  LET hits == {i \in 1..Len(usersUsed) : usersUsed[i].userId = u}
  IN IF hits = {} THEN 0 ELSE CHOOSE i \in hits : \A j \in hits : i <= j

\* The locals of a placeOrder request at its start.
NewRequest(u, items, method, coupon, addrOk) ==
  [pc |-> "findProduct", user |-> u, items |-> items, paymentMethod |-> method,
   couponCode |-> coupon, addrOk |-> addrOk, i |-> 1,
   subtotal |-> 0, totalDiscount |-> 0, couponDiscount |-> 0,
   appliedCoupon |-> Null, snapshot |-> <<>>,
   newStock |-> 0, couponOp |-> "none", couponIdx |-> 0, couponTimes |-> 0,
   couponVersion |-> 0, newBalance |-> 0, error |-> "none"]

Idle == [NewRequest(1, <<>>, "Wallet", Null, TRUE) EXCEPT !.pc = "idle"]

Fail(w, r, e) == [w |-> w, r |-> [r EXCEPT !.pc = "failed", !.error = e]]

\* Math.max(0, Math.round(subtotal - totalDiscount)).
FinalPriceOf(r) == MaxInt(0, RoundRupee(r.subtotal - r.totalDiscount))

\* Product.findById(item.product).populate('bestOffer'), the stock check and
\* the snapshot of one item; product.stock -= quantity on the loaded document.
FindProduct(w, offs, r) ==
  LET item == r.items[r.i]
      p == item.product
  IN IF ~IsStored(w.products, p) THEN Fail(w, r, "Product not found")
     ELSE LET prod == w.products[p]
              d == ItemDiscount(prod, offs)
          IN IF prod.stock < item.quantity THEN Fail(w, r, "Insufficient stock")
             ELSE [w |-> w,
                   r |-> [r EXCEPT
                            !.pc = "saveProduct",
                            !.subtotal = @ + prod.price * item.quantity,
                            !.totalDiscount = @ + d * item.quantity,
                            !.snapshot = Append(@, NewItem(p, item.quantity, prod.price, d)),
                            !.newStock = prod.stock - item.quantity]]

AfterItems(r) == IF IsNull(r.couponCode) THEN "findAddress" ELSE "findCoupon"

\* product.save(): the stock computed on the loaded document is written.
SaveProduct(w, r) ==
  LET p == r.items[r.i].product
  IN [w |-> [w EXCEPT !.products[p].stock = r.newStock],
      r |-> [r EXCEPT !.i = @ + 1,
                      !.pc = IF r.i < Len(r.items) THEN "findProduct" ELSE AfterItems(r)]]

\* Coupon.findOne and the checks; the discount; the usage entry of the user
\* is pushed or incremented on the loaded document.
FindCoupon(w, r) ==
  LET c == Val(r.couponCode)
      coupon == CouponAt(w.coupons, c)
      idx == UserIndex(coupon.usersUsed, r.user)
      pct == (r.subtotal * coupon.discountValue) \div 100
      raw == IF coupon.discountType = "percentage"
             THEN (IF IsNull(coupon.maxDiscountAmount) THEN pct
                   ELSE MinInt(pct, Val(coupon.maxDiscountAmount)))
             ELSE coupon.discountValue
      couponDiscount == MinInt(raw, r.subtotal)
  IN IF ~coupon.exists THEN Fail(w, r, "Invalid coupon code")
     ELSE IF ~coupon.isActive THEN Fail(w, r, "Coupon no longer active")
     ELSE IF ~coupon.inWindow THEN Fail(w, r, "Coupon expired")
     ELSE IF r.subtotal < coupon.minOrderAmount THEN Fail(w, r, "Minimum order amount")
     ELSE IF idx # 0 /\ coupon.usersUsed[idx].timesUsed >= coupon.perUserLimit
          THEN Fail(w, r, "Coupon usage limit reached")
     ELSE [w |-> w,
           r |-> [r EXCEPT
                    !.pc = "saveCoupon",
                    !.couponDiscount = couponDiscount,
                    !.totalDiscount = @ + couponDiscount,
                    !.couponOp = IF idx = 0 THEN "push" ELSE "set",
                    !.couponIdx = idx,
                    !.couponTimes = IF idx = 0 THEN 1 ELSE coupon.usersUsed[idx].timesUsed + 1,
                    !.couponVersion = coupon.version]]

\* coupon.save(): a new entry is a $push, which increments the version key;
\* an incremented entry is a $set of usersUsed.<idx>.timesUsed, which is
\* sent with the loaded version in its filter and fails when that has moved.
SaveCoupon(w, r) ==
  LET c == Val(r.couponCode)
      cur == w.coupons[c]
      done == [r EXCEPT !.pc = "findAddress", !.appliedCoupon = r.couponCode]
  IN IF r.couponOp = "push"
     THEN [w |-> [w EXCEPT !.coupons[c].usersUsed =
                              Append(@, [userId |-> r.user, timesUsed |-> r.couponTimes]),
                           !.coupons[c].version = @ + 1],
           r |-> done]
     ELSE IF cur.version # r.couponVersion THEN Fail(w, r, "VersionError")
     ELSE [w |-> [w EXCEPT !.coupons[c].usersUsed[r.couponIdx].timesUsed = r.couponTimes],
           r |-> done]

\* Address.findById(shippingAddress).
FindAddress(w, r) ==
  IF ~r.addrOk THEN Fail(w, r, "Address not found")
  ELSE [w |-> w,
        r |-> [r EXCEPT !.pc = IF r.paymentMethod = "Wallet" THEN "findWallet"
                                ELSE "createOrder"]]

\* Wallet.findOne (or create), the balance check, the debit on the loaded
\* document.
FindWallet(w, r) ==
  LET ws == FindOrCreateWallet(w.wallets, r.user)
      w2 == [w EXCEPT !.wallets = ws]
  IN IF ws[r.user].balance < FinalPriceOf(r) THEN Fail(w2, r, "Insufficient wallet balance")
     ELSE [w |-> w2,
           r |-> [r EXCEPT !.pc = "saveWallet",
                           !.newBalance = ws[r.user].balance - FinalPriceOf(r)]]

\* wallet.save(): the balance computed on the loaded document is written and
\* the debit pushed.
SaveWallet(w, r) ==
  [w |-> [w EXCEPT !.wallets[r.user].balance = r.newBalance,
                   !.wallets[r.user].transactions =
                      Append(@, [type |-> "debit", amount |-> FinalPriceOf(r)])],
   r |-> [r EXCEPT !.pc = "createOrder"]]

\* Order.create (with the pre-save hook) and, for Razorpay, the gateway
\* order id stored on it.
OrderDoc(r, id) ==
  SaveOrder(
    [user |-> r.user, orderItems |-> r.snapshot,
     totalAmount |-> r.subtotal, totalDiscount |-> r.totalDiscount,
     finalPrice |-> FinalPriceOf(r),
     couponCode |-> r.appliedCoupon, couponDiscount |-> r.couponDiscount,
     paymentMethod |-> r.paymentMethod,
     paymentStatus |-> IF r.paymentMethod = "Wallet" THEN "Paid" ELSE "Pending",
     razorpayOrderId |-> IF r.paymentMethod = "Razorpay" THEN Some(id) ELSE Null,
     orderStatus |-> "Processing", refundedAmount |-> 0],
    TRUE)

CreateOrder(w, r) ==
  [w |-> [w EXCEPT !.orders = Append(@, OrderDoc(r, Len(w.orders) + 1)),
                   !.audit = Append(@, NewAudit(r.snapshot))],
   r |-> [r EXCEPT !.pc = "done"]]

\* One step of a placeOrder request: from one await to the next.
PlaceStep(w, offs, r) ==
  CASE r.pc = "findProduct" -> FindProduct(w, offs, r)
    [] r.pc = "saveProduct" -> SaveProduct(w, r)
    [] r.pc = "findCoupon" -> FindCoupon(w, r)
    [] r.pc = "saveCoupon" -> SaveCoupon(w, r)
    [] r.pc = "findAddress" -> FindAddress(w, r)
    [] r.pc = "findWallet" -> FindWallet(w, r)
    [] r.pc = "saveWallet" -> SaveWallet(w, r)
    [] r.pc = "createOrder" -> CreateOrder(w, r)

\* A placeOrder request run from start to end with no other request between
\* its steps.
RECURSIVE placeOrder(_, _, _)
placeOrder(w, offs, r) ==
  IF r.pc \in {"done", "failed"} THEN [w |-> w, r |-> r]
  ELSE LET n == PlaceStep(w, offs, r) IN placeOrder(n.w, offs, n.r)

\* ========================================================== order handlers
MaxOrders == 1
MaxOrderOps == 5

Methods == {"Wallet", "Razorpay", "Cash on Delivery"}

\* The order handlers leave the offers alone.
catalogue == <<offers, resolved, requests>>

\* One more request is handled; runs are explored up to MaxOrderOps requests.
HandledOrder == ops < MaxOrderOps /\ ops' = ops + 1

TheWorld == World(products, coupons, wallets, orders, audit)

\* The collections after a handler: what it wrote before it returned or threw.
Commit(w) ==
  /\ products' = w.products
  /\ coupons' = w.coupons
  /\ wallets' = w.wallets
  /\ orders' = w.orders
  /\ audit' = w.audit

Respond(op, e) ==
  /\ HandledOrder
  /\ response' = [op |-> op, error |-> e]

\* A request that is rejected before it writes anything.
Reject(op, e) ==
  /\ Respond(op, e)
  /\ UNCHANGED <<products, coupons, wallets, orders, audit>>

\* orderItems.find(item => item.product equals productId); 0 when none.
FindItem(order, p) ==
  LET hits == {i \in 1..Len(order.orderItems) : order.orderItems[i].product = p}
  IN IF hits = {} THEN 0 ELSE CHOOSE i \in hits : \A j \in hits : i <= j

RECURSIVE ItemsAt(_, _, _)
ItemsAt(items, S, i) ==
  IF i > Len(items) THEN <<>>
  ELSE (IF i \in S THEN <<items[i]>> ELSE <<>>) \o ItemsAt(items, S, i + 1)

\* product.stock += item.quantity; product.save() for every item of the
\* list whose product is found.
Restock(ps, items) ==
  [p \in Products |->
     IF ps[p].exists THEN [ps[p] EXCEPT !.stock = @ + SumQty(items, p)] ELSE ps[p]]

Released(a, ps, items) ==
  [a EXCEPT !.held = [p \in Products |->
                        IF ps[p].exists THEN @[p] - SumQty(items, p) ELSE @[p]]]

\* A credit of amount that covers the price of the items in S.
Refunded(a, S, amount) ==
  IF amount > 0
  THEN [a EXCEPT !.refunds = [i \in DOMAIN @ |-> IF i \in S THEN @[i] + 1 ELSE @[i]]]
  ELSE a

\* placeOrder: the whole request, from validation to the response.
PlaceOrder(u, items, method, coupon, addrOk) ==
  /\ Len(orders) < MaxOrders
  /\ LET n == placeOrder(TheWorld, offers, NewRequest(u, items, method, coupon, addrOk))
     IN /\ Commit(n.w)
        /\ Respond("placeOrder", n.r.error)
  /\ UNCHANGED catalogue

\* The gateway order ids a request may name: the one stored on an order of
\* this shop (the order's index), or the id of a gateway order created for
\* something else.
GatewayIds == 1..(MaxOrders + 1)

\* verifyRazorpay.  gw: the razorpayOrderId of the body; sigOk: the signature
\* matches the HMAC of gw and the paymentId sent.  gw is read nowhere else.
VerifyRazorpay(u, o, gw, sigOk) ==
  /\ UNCHANGED catalogue
  /\ IF ~sigOk THEN Reject("verifyRazorpay", "Invalid signature")
     ELSE IF o > Len(orders) THEN Reject("verifyRazorpay", "No order found")
     ELSE IF orders[o].user # u THEN Reject("verifyRazorpay", "Unauthorized")
     ELSE IF orders[o].paymentStatus = "Paid" THEN Reject("verifyRazorpay", "Already paid")
     ELSE /\ products' =
               [p \in Products |->
                  IF products[p].exists
                  THEN [products[p] EXCEPT
                          !.stock = @ - SumQty(orders[o].orderItems, p),
                          !.reservedStock = @ - SumQty(orders[o].orderItems, p)]
                  ELSE products[p]]
          /\ audit' = [audit EXCEPT ![o].held =
                         [p \in Products |->
                            IF products[p].exists
                            THEN @[p] + SumQty(orders[o].orderItems, p) ELSE @[p]]]
          /\ orders' = [orders EXCEPT ![o] =
                          SaveOrder([@ EXCEPT !.paymentStatus = "Paid"], FALSE)]
          /\ Respond("verifyRazorpay", "none")
          /\ UNCHANGED <<coupons, wallets>>

\* markPaymentAsFailed.
MarkPaymentAsFailed(u, o) ==
  /\ UNCHANGED catalogue
  /\ IF o > Len(orders) THEN Reject("markPaymentAsFailed", "Order not found")
     ELSE IF orders[o].user # u THEN Reject("markPaymentAsFailed", "Unauthorized")
     ELSE IF orders[o].paymentStatus = "Paid"
          THEN Reject("markPaymentAsFailed", "Already paid")
     ELSE /\ orders' = [orders EXCEPT ![o] =
                          SaveOrder([@ EXCEPT !.paymentStatus = "Failed"], FALSE)]
          /\ Respond("markPaymentAsFailed", "none")
          /\ UNCHANGED <<products, coupons, wallets, audit>>

\* The amount retryPayment charges: the items not Cancelled less their share
\* of the coupon discount.
AmountToCharge(o) ==
  LET currentTotalAmount == SumTotalPrice(o.orderItems, {"Cancelled"})
      currentCouponDiscount ==
        IF o.couponDiscount > 0 /\ o.totalAmount > 0
        THEN RoundDiv(currentTotalAmount * o.couponDiscount, o.totalAmount)
        ELSE 0
  IN MaxInt(0, currentTotalAmount - currentCouponDiscount)

\* retryPayment with paymentMethod Razorpay or Wallet.
RetryPayment(u, o, method) ==
  /\ UNCHANGED catalogue
  /\ IF o > Len(orders) THEN Reject("retryPayment", "Order not found")
     ELSE IF orders[o].user # u THEN Reject("retryPayment", "Unauthorized")
     ELSE IF orders[o].paymentStatus # "Failed"
          THEN Reject("retryPayment", "Not eligible for retry")
     ELSE IF method \notin {"Wallet", "Razorpay"}
          THEN Reject("retryPayment", "Invalid payment method")
     ELSE IF method = "Razorpay"
     THEN /\ orders' = [orders EXCEPT ![o] =
                          SaveOrder([@ EXCEPT !.razorpayOrderId = Some(o),
                                              !.paymentStatus = "Pending"], FALSE)]
          /\ Respond("retryPayment", "none")
          /\ UNCHANGED <<products, coupons, wallets, audit>>
     ELSE LET ws == FindOrCreateWallet(wallets, u)
              amount == AmountToCharge(orders[o])
          IN IF ws[u].balance < amount
             THEN /\ wallets' = ws
                  /\ Respond("retryPayment", "Insufficient wallet balance")
                  /\ UNCHANGED <<products, coupons, orders, audit>>
             ELSE /\ wallets' = [ws EXCEPT
                                   ![u].balance = @ - amount,
                                   ![u].transactions =
                                      Append(@, [type |-> "debit", amount |-> amount])]
                  /\ orders' = [orders EXCEPT ![o] =
                                  SaveOrder([@ EXCEPT !.paymentMethod = "Wallet",
                                                      !.paymentStatus = "Paid"], FALSE)]
                  /\ Respond("retryPayment", "none")
                  /\ UNCHANGED <<products, coupons, audit>>

SetStatus(items, S, status) ==
  [i \in 1..Len(items) |-> IF i \in S THEN [items[i] EXCEPT !.status = status] ELSE items[i]]

\* The refund without the coupon share: the whole price of the item.
CancelRefundFull(order, item) == item.totalPrice

\* cancelOrder for one item: Math.round of the item's price less its share
\* of the coupon discount, in whole rupees.
CancelRefund(order, item) ==
  IF IsNull(order.couponCode) THEN item.totalPrice
  ELSE 100 * RoundDiv(item.totalPrice * (order.totalAmount - order.couponDiscount),
                      100 * order.totalAmount)

\* cancelOrder with a productId.
CancelItem(o, p) ==
  LET order == orders[o]
      i == FindItem(order, p)
      item == order.orderItems[i]
      refundAmount == CancelRefund(order, item)
      paid == order.paymentStatus = "Paid"
  IN IF i = 0 THEN Reject("cancelOrder", "Product not in order")
     ELSE IF item.status \in {"Shipped", "Delivered", "Returned", "Return Requested",
                              "Return Rejected"}
          THEN Reject("cancelOrder", "Cannot be cancelled")
     ELSE /\ products' = Restock(products, <<item>>)
          /\ wallets' = IF paid THEN CreditWallet(wallets, order.user, refundAmount)
                        ELSE wallets
          /\ audit' = [audit EXCEPT ![o] =
                         IF paid THEN Refunded(Released(@, products, <<item>>), {i}, refundAmount)
                         ELSE Released(@, products, <<item>>)]
          /\ orders' = [orders EXCEPT ![o] =
                          SaveOrder([@ EXCEPT
                                       !.refundedAmount =
                                          IF paid THEN @ + refundAmount ELSE @,
                                       !.orderItems = SetStatus(@, {i}, "Cancelled")],
                                    item.status # "Cancelled")]
          /\ Respond("cancelOrder", "none")
          /\ UNCHANGED coupons

\* cancelOrder without a productId.
CancelWhole(o) ==
  LET order == orders[o]
      items == order.orderItems
      open == {i \in 1..Len(items) :
                 items[i].status \notin {"Cancelled", "Returned", "Return Rejected"}}
      covered == {i \in 1..Len(items) : items[i].status # "Cancelled"}
      paid == order.paymentStatus = "Paid"
  IN IF order.orderStatus \in {"Shipped", "Delivered"}
     THEN Reject("cancelOrder", "Already shipped or delivered")
     ELSE /\ products' = Restock(products, ItemsAt(items, open, 1))
          /\ wallets' = IF paid THEN CreditWallet(wallets, order.user, order.finalPrice)
                        ELSE wallets
          /\ audit' = [audit EXCEPT ![o] =
                         IF paid
                         THEN Refunded(Released(@, products, ItemsAt(items, open, 1)),
                                       covered, order.finalPrice)
                         ELSE Released(@, products, ItemsAt(items, open, 1))]
          /\ orders' = [orders EXCEPT ![o] =
                          SaveOrder([@ EXCEPT
                                       !.refundedAmount =
                                          IF paid THEN order.finalPrice ELSE @,
                                       !.orderItems = SetStatus(@, open, "Cancelled")],
                                    open # {})]
          /\ Respond("cancelOrder", "none")
          /\ UNCHANGED coupons

\* cancelOrder.  p = 0: no productId in the body.
CancelOrder(o, p) ==
  /\ UNCHANGED catalogue
  /\ IF o > Len(orders) THEN Reject("cancelOrder", "Order not found")
     ELSE IF orders[o].orderStatus = "Cancelled"
          THEN Reject("cancelOrder", "Already cancelled")
     ELSE IF p # 0 THEN CancelItem(o, p)
     ELSE CancelWhole(o)

\* requestReturnOrder.
RequestReturnOrder(o, p) ==
  /\ UNCHANGED catalogue
  /\ IF o > Len(orders) THEN Reject("requestReturnOrder", "Order not found")
     ELSE IF orders[o].orderStatus = "Cancelled"
          THEN Reject("requestReturnOrder", "Already cancelled")
     ELSE LET i == FindItem(orders[o], p)
              item == orders[o].orderItems[i]
          IN IF i = 0 THEN Reject("requestReturnOrder", "Product not in order")
             ELSE IF ~IsStored(products, p)
                  THEN Reject("requestReturnOrder", "Product not found")
             ELSE IF item.status \in {"Shipped", "Cancelled"}
                  THEN Reject("requestReturnOrder", "Shipped or cancelled")
             ELSE IF item.returnRequest.requested
                  THEN Reject("requestReturnOrder", "Already requested")
             ELSE /\ orders' = [orders EXCEPT ![o] =
                                  SaveOrder([@ EXCEPT
                                     !.orderItems[i].returnRequest =
                                        [requested |-> TRUE, approved |-> FALSE,
                                         responseSent |-> FALSE],
                                     !.orderItems[i].status = "Return Requested"], TRUE)]
                  /\ Respond("requestReturnOrder", "none")
                  /\ UNCHANGED <<products, coupons, wallets, audit>>

\* validTransitions with Delivered -> Cancelled allowed as well.
ValidTransitionLoose(from, to) ==
  \/ from = "Processing" /\ to \in {"Shipped", "Cancelled"}
  \/ from = "Shipped" /\ to \in {"Delivered", "Cancelled"}
  \/ from = "Delivered" /\ to \in {"Cancelled"}

\* validTransitions[order.orderStatus]?.includes(status)
ValidTransition(from, to) ==
  \/ from = "Processing" /\ to \in {"Shipped", "Cancelled"}
  \/ from = "Shipped" /\ to \in {"Delivered", "Cancelled"}

\* updateOrderStatus (admin).
UpdateOrderStatus(o, status) ==
  /\ UNCHANGED catalogue
  /\ IF o > Len(orders) THEN Reject("updateOrderStatus", "Order not found")
     ELSE IF ~ValidTransition(orders[o].orderStatus, status)
          THEN Reject("updateOrderStatus", "Invalid status transition")
     ELSE LET order == orders[o]
              items == order.orderItems
              restock == status = "Cancelled" /\ order.orderStatus = "Processing"
              refund == status = "Cancelled" /\ order.paymentStatus = "Paid"
              moved == {i \in 1..Len(items) : items[i].status # "Cancelled"}
              changed == {i \in moved : items[i].status # status}
              a1 == IF restock THEN Released(audit[o], products, items) ELSE audit[o]
          IN /\ products' = IF restock THEN Restock(products, items) ELSE products
             /\ wallets' = IF refund THEN CreditWallet(wallets, order.user, order.finalPrice)
                           ELSE wallets
             /\ audit' = [audit EXCEPT ![o] =
                            IF refund THEN Refunded(a1, moved, order.finalPrice) ELSE a1]
             /\ orders' = [orders EXCEPT ![o] =
                             SaveOrder([@ EXCEPT
                                          !.refundedAmount =
                                             IF refund THEN order.finalPrice ELSE @,
                                          !.orderItems = SetStatus(@, moved, status)],
                                       changed # {})]
             /\ Respond("updateOrderStatus", "none")
             /\ UNCHANGED coupons

\* requestReturnAdmin, approve: (totalPrice - totalPrice * couponDiscount /
\* finalPrice).toFixed(), in whole rupees.  finalPrice is positive here.
ReturnRefund(order, item) ==
  100 * RoundDiv(item.totalPrice * (order.finalPrice - order.couponDiscount),
                 100 * order.finalPrice)

\* requestReturnAdmin with action approve.
ApproveReturn(o, p, i) ==
  LET order == orders[o]
      item == order.orderItems[i]
      ps == Restock(products, <<item>>)
      refundAmount == ReturnRefund(order, item)
      ws == FindOrCreateWallet(wallets, order.user)
  IN IF order.finalPrice = 0 \/ ws[order.user].balance + refundAmount < 0
     \* the refund is NaN or infinite, or the balance fails min: 0: wallet.save()
     \* throws after the product was saved
     THEN /\ products' = ps
          /\ wallets' = ws
          /\ audit' = [audit EXCEPT ![o] = Released(@, products, <<item>>)]
          /\ Respond("requestReturnAdmin", "ValidationError")
          /\ UNCHANGED <<coupons, orders>>
     ELSE /\ products' = ps
          /\ wallets' = CreditWallet(wallets, order.user, refundAmount)
          /\ audit' = [audit EXCEPT ![o] =
                         Refunded(Released(@, products, <<item>>), {i}, refundAmount)]
          /\ orders' = [orders EXCEPT ![o] =
                          SaveOrder([@ EXCEPT
                             !.refundedAmount = @ + refundAmount,
                             !.orderItems[i].returnRequest.approved = TRUE,
                             !.orderItems[i].returnRequest.responseSent = TRUE,
                             !.orderItems[i].status = "Returned"], TRUE)]
          /\ Respond("requestReturnAdmin", "none")
          /\ UNCHANGED coupons

\* requestReturnAdmin with action reject.
RejectReturn(o, i) ==
  /\ orders' = [orders EXCEPT ![o] =
                  SaveOrder([@ EXCEPT
                     !.orderItems[i].returnRequest.approved = FALSE,
                     !.orderItems[i].returnRequest.responseSent = TRUE,
                     !.orderItems[i].status = "Return Rejected"], TRUE)]
  /\ Respond("requestReturnAdmin", "none")
  /\ UNCHANGED <<products, coupons, wallets, audit>>

\* requestReturnAdmin.
RequestReturnAdmin(o, p, action) ==
  /\ UNCHANGED catalogue
  /\ IF o > Len(orders) THEN Reject("requestReturnAdmin", "Order not found")
     ELSE IF orders[o].orderStatus = "Cancelled"
          THEN Reject("requestReturnAdmin", "Already cancelled")
     ELSE LET i == FindItem(orders[o], p)
              item == orders[o].orderItems[i]
          IN IF i = 0 THEN Reject("requestReturnAdmin", "Product not in order")
             ELSE IF item.status \in {"Delivered", "Shipped", "Return Rejected", "Cancelled"}
                  THEN Reject("requestReturnAdmin", "Invalid item status")
             ELSE IF ~item.returnRequest.requested
                  THEN Reject("requestReturnAdmin", "No return request")
             ELSE IF item.returnRequest.approved \/ item.returnRequest.responseSent
                  THEN Reject("requestReturnAdmin", "Already processed")
             ELSE IF action = "approve" THEN ApproveReturn(o, p, i)
             ELSE RejectReturn(o, i)

\* ------------------------------------------------- the shop the orders run in
\* Two listed products, in paise: product 1 at 60.00 with a 10% offer,
\* product 2 at 40.00 with one unit less in stock.
Catalogue ==
  AddOfferEffect(
    [p \in Products |-> IF p = 1 THEN NewProduct(6000, InitStock)
                        ELSE NewProduct(4000, InitStock - 1)],
    [o \in Offers |-> NoOffer], 1, "Product", 1, "percentage", 10, TRUE)

\* Coupon 1: 10.00 off, once in all and once per user.  Coupon 2: 10% off up
\* to 5.00 on orders of 80.00 or more, twice in all and twice per user.
InitCoupons ==
  [c \in Coupons |->
     IF c = 1
     THEN [NoCoupon EXCEPT !.exists = TRUE, !.discountValue = 1000,
                           !.isActive = TRUE, !.inWindow = TRUE]
     ELSE [NoCoupon EXCEPT !.exists = TRUE, !.discountType = "percentage",
                           !.discountValue = 10, !.minOrderAmount = 8000,
                           !.maxDiscountAmount = Some(500), !.usageLimit = 2,
                           !.perUserLimit = 2, !.isActive = TRUE, !.inWindow = TRUE]]

\* User 1 has added 200.00 to the wallet; user 2 has no wallet yet.
InitWallets ==
  [u \in Users |->
     IF u = 1 THEN [NewWallet EXCEPT !.balance = 20000,
                                     !.transactions = <<[type |-> "credit", amount |-> 20000]>>]
     ELSE NoWallet]

Item(p, q) == [product |-> p, quantity |-> q]

\* The orderItems of the requests: one item; two items; two items of which
\* the second exceeds the stock; two items of which the second is not a product.
ItemLists ==
  { <<Item(1, 1)>>,
    <<Item(1, 1), Item(2, 1)>>,
    <<Item(1, 1), Item(2, MaxQty)>>,
    <<Item(2, 1), Item(NoSuchProduct, 1)>> }

CouponCodes == {Null, Some(1), Some(2)}

Init ==
  /\ products = Catalogue.prods
  /\ offers = Catalogue.offs
  /\ ops = 0
  /\ resolved = {}
  /\ orders = <<>>
  /\ wallets = InitWallets
  /\ coupons = InitCoupons
  /\ requests = <<>>
  /\ response = [op |-> "none", error |-> "none"]
  /\ audit = <<>>

OrderIds == 1..MaxOrders

\* The status values an admin request may carry.
AdminStatuses == {"Processing", "Shipped", "Delivered", "Cancelled", "Returned"}

Next ==
  \/ \E u \in Users, items \in ItemLists, method \in Methods,
        coupon \in CouponCodes, addrOk \in BOOLEAN :
        PlaceOrder(u, items, method, coupon, addrOk)
  \/ \E u \in Users, o \in OrderIds, gw \in GatewayIds, sigOk \in BOOLEAN :
        VerifyRazorpay(u, o, gw, sigOk)
  \/ \E u \in Users, o \in OrderIds : MarkPaymentAsFailed(u, o)
  \/ \E u \in Users, o \in OrderIds, method \in Methods : RetryPayment(u, o, method)
  \/ \E o \in OrderIds, p \in {0} \cup Products : CancelOrder(o, p)
  \/ \E o \in OrderIds, p \in Products : RequestReturnOrder(o, p)
  \/ \E o \in OrderIds, status \in AdminStatuses : UpdateOrderStatus(o, status)
  \/ \E o \in OrderIds, p \in Products, action \in {"approve", "reject"} :
        RequestReturnAdmin(o, p, action)

Spec == Init /\ [][Next]_vars

\* The same shop with coupon 1 worth 30.00, more than half of the cheapest
\* order (coupon.discountValue has no upper limit against the order total
\* other than the subtotal itself).
InitBigCoupon ==
  /\ products = Catalogue.prods
  /\ offers = Catalogue.offs
  /\ ops = 0
  /\ resolved = {}
  /\ orders = <<>>
  /\ wallets = InitWallets
  /\ coupons = [InitCoupons EXCEPT ![1].discountValue = 3000]
  /\ requests = <<>>
  /\ response = [op |-> "none", error |-> "none"]
  /\ audit = <<>>

SpecBigCoupon == InitBigCoupon /\ [][Next]_vars

\* The order handlers together with the catalogue edits an admin and the
\* periodic job make once an order is there: a price edit, an offer added,
\* edited, toggled or expired.  Runs are explored up to MaxShopOps requests.
MaxShopOps == 3

ShopOpen == ops < MaxShopOps
ShopEdits == ops < MaxShopOps /\ orders # <<>>

NextShop ==
  \/ \E u \in Users, items \in ItemLists, method \in Methods,
        coupon \in CouponCodes, addrOk \in BOOLEAN :
        ShopOpen /\ PlaceOrder(u, items, method, coupon, addrOk)
  \/ \E u \in Users, o \in OrderIds, gw \in GatewayIds, sigOk \in BOOLEAN :
        ShopOpen /\ VerifyRazorpay(u, o, gw, sigOk)
  \/ \E u \in Users, o \in OrderIds : ShopOpen /\ MarkPaymentAsFailed(u, o)
  \/ \E u \in Users, o \in OrderIds, method \in Methods :
        ShopOpen /\ RetryPayment(u, o, method)
  \/ \E o \in OrderIds, p \in {0} \cup Products : ShopOpen /\ CancelOrder(o, p)
  \/ \E o \in OrderIds, p \in Products : ShopOpen /\ RequestReturnOrder(o, p)
  \/ \E o \in OrderIds, status \in AdminStatuses :
        ShopOpen /\ UpdateOrderStatus(o, status)
  \/ \E o \in OrderIds, p \in Products, action \in {"approve", "reject"} :
        ShopOpen /\ RequestReturnAdmin(o, p, action)
  \/ \E p \in Products, price \in Prices : ShopEdits /\ EditProduct(p, price)
  \/ \E k \in OfferKinds, st \in BOOLEAN :
        ShopEdits /\ AddOffer(k[1], k[2], k[3], k[4], st)
  \/ \E o \in Offers, k \in OfferKinds, start \in {"keep", "today", "future"} :
        ShopEdits /\ EditOffer(o, k[1], k[2], k[3], k[4], start)
  \/ \E o \in Offers : ShopEdits /\ ToggleOfferList(o)
  \/ ShopEdits /\ ExpiredOffersJob
  \/ \E o \in Offers : ShopEdits /\ TimePasses(o)

SpecShop == Init /\ [][NextShop]_vars

\* ================================================== concurrent placeOrder
\* Requests run on one event loop: each step below is the code from one await
\* to the next, and the steps of different requests interleave.
MaxRequests == 2

RequestIds == 1..MaxRequests

CheckoutItemLists == { <<Item(1, 1)>>, <<Item(1, 1), Item(2, 1)>> }

CheckoutMethods == {"Wallet", "Cash on Delivery"}

\* A request arrives: placeOrder starts with its validated body.
StartPlaceOrder(k, u, items, method, coupon) ==
  /\ requests[k].pc = "idle"
  /\ \A j \in RequestIds : j < k => requests[j].pc # "idle"
  /\ requests' = [requests EXCEPT ![k] = NewRequest(u, items, method, coupon, TRUE)]
  /\ ops' = ops + 1
  /\ UNCHANGED <<products, offers, resolved, orders, wallets, coupons, response, audit>>

\* The request runs to its next await, or to its response.
StepPlaceOrder(k) ==
  /\ requests[k].pc \notin {"idle", "done", "failed"}
  /\ LET n == PlaceStep(TheWorld, offers, requests[k])
     IN /\ Commit(n.w)
        /\ requests' = [requests EXCEPT ![k] = n.r]
        /\ response' = IF n.r.pc \in {"done", "failed"}
                       THEN [op |-> "placeOrder", error |-> n.r.error]
                       ELSE response
  /\ UNCHANGED <<offers, resolved, ops>>

\* As Init, with two units more of each product in stock, and user 1 having
\* used coupon 2 once before.
InitCheckout ==
  /\ products = [p \in Products |-> [Catalogue.prods[p] EXCEPT !.stock = @ + MaxRequests]]
  /\ offers = Catalogue.offs
  /\ ops = 0
  /\ resolved = {}
  /\ orders = <<>>
  /\ wallets = InitWallets
  /\ coupons = [InitCoupons EXCEPT ![2].usersUsed = <<[userId |-> 1, timesUsed |-> 1]>>]
  /\ requests = [k \in RequestIds |-> Idle]
  /\ response = [op |-> "none", error |-> "none"]
  /\ audit = <<>>

NextCheckout ==
  \/ \E k \in RequestIds, u \in Users, items \in CheckoutItemLists,
        method \in CheckoutMethods, coupon \in CouponCodes :
        StartPlaceOrder(k, u, items, method, coupon)
  \/ \E k \in RequestIds : StepPlaceOrder(k)

SpecCheckout == InitCheckout /\ [][NextCheckout]_vars

\* ============================================== concurrent verifyRazorpay
\* The gateway may deliver its callback more than once: verifyRazorpay
\* requests for the same order run on the one event loop, each step being the
\* code from one await to the next.
NoVerify == [pc |-> "idle", user |-> 1, order |-> 1, items |-> <<>>, i |-> 1,
             error |-> "none"]

\* The request arrives; the signature is checked before any read.
StartVerify(k, u, o, sigOk) ==
  /\ requests[k].pc = "idle"
  /\ \A j \in RequestIds : j < k => requests[j].pc # "idle"
  /\ requests' = [requests EXCEPT ![k] =
                    IF sigOk THEN [NoVerify EXCEPT !.pc = "findOrder", !.user = u, !.order = o]
                    ELSE [NoVerify EXCEPT !.pc = "failed", !.user = u, !.order = o,
                                          !.error = "Invalid signature"]]
  /\ response' = IF sigOk THEN response
                 ELSE [op |-> "verifyRazorpay", error |-> "Invalid signature"]
  /\ ops' = ops + 1
  /\ UNCHANGED <<products, offers, resolved, orders, wallets, coupons, audit>>

\* Order.findById and the checks on the loaded document.
VerifyFindOrder(k) ==
  LET r == requests[k]
      e == IF r.order > Len(orders) THEN "No order found"
           ELSE IF orders[r.order].user # r.user THEN "Unauthorized"
           ELSE IF orders[r.order].paymentStatus = "Paid" THEN "Already paid"
           ELSE "none"
  IN /\ r.pc = "findOrder"
     /\ requests' = [requests EXCEPT ![k] =
                       IF e # "none" THEN [r EXCEPT !.pc = "failed", !.error = e]
                       ELSE [r EXCEPT !.pc = "incStock",
                                      !.items = orders[r.order].orderItems]]
     /\ response' = IF e # "none" THEN [op |-> "verifyRazorpay", error |-> e] ELSE response
     /\ UNCHANGED <<products, offers, resolved, orders, wallets, coupons, ops, audit>>

\* Product.findByIdAndUpdate with $inc for the next item of the loaded order.
VerifyIncStock(k) ==
  LET r == requests[k]
      item == r.items[r.i]
      p == item.product
  IN /\ r.pc = "incStock"
     /\ products' = IF products[p].exists
                    THEN [products EXCEPT ![p].stock = @ - item.quantity,
                                          ![p].reservedStock = @ - item.quantity]
                    ELSE products
     /\ audit' = IF products[p].exists
                 THEN [audit EXCEPT ![r.order].held[p] = @ + item.quantity]
                 ELSE audit
     /\ requests' = [requests EXCEPT ![k] =
                       [r EXCEPT !.i = @ + 1,
                                 !.pc = IF r.i < Len(r.items) THEN "incStock" ELSE "saveOrder"]]
     /\ UNCHANGED <<offers, resolved, orders, wallets, coupons, ops, response>>

\* order.save() of the loaded document: paymentStatus is the one modified
\* path, and the pre-save hook runs on the items as they were loaded.
VerifySaveOrder(k) ==
  LET r == requests[k]
      loaded == [orders[r.order] EXCEPT !.orderItems = r.items,
                                        !.paymentStatus = "Paid"]
      saved == SaveOrder(loaded, FALSE)
  IN /\ r.pc = "saveOrder"
     /\ orders' = [orders EXCEPT ![r.order].paymentStatus = "Paid",
                                 ![r.order].finalPrice = saved.finalPrice,
                                 ![r.order].orderStatus = saved.orderStatus]
     /\ requests' = [requests EXCEPT ![k] = [r EXCEPT !.pc = "done"]]
     /\ response' = [op |-> "verifyRazorpay", error |-> "none"]
     /\ UNCHANGED <<products, offers, resolved, wallets, coupons, ops, audit>>

\* The shop of Init with no verifyRazorpay request received yet.
InitVerify ==
  /\ products = Catalogue.prods
  /\ offers = Catalogue.offs
  /\ ops = 0
  /\ resolved = {}
  /\ orders = <<>>
  /\ wallets = InitWallets
  /\ coupons = InitCoupons
  /\ requests = [k \in RequestIds |-> NoVerify]
  /\ response = [op |-> "none", error |-> "none"]
  /\ audit = <<>>

\* An order is placed for payment through the gateway, and the gateway's
\* callbacks for it arrive.
NextVerify ==
  \/ \E u \in Users, items \in CheckoutItemLists :
        PlaceOrder(u, items, "Razorpay", Null, TRUE)
  \/ \E k \in RequestIds, u \in Users, o \in OrderIds, sigOk \in BOOLEAN :
        StartVerify(k, u, o, sigOk)
  \/ \E k \in RequestIds : VerifyFindOrder(k)
  \/ \E k \in RequestIds : VerifyIncStock(k)
  \/ \E k \in RequestIds : VerifySaveOrder(k)

SpecVerify == InitVerify /\ [][NextVerify]_vars

\* ===================================== the expiry sweep and an offer toggle
\* expiredOffersJob and one toggleOfferList request run on the one event
\* loop, each step being the code from one await to the next.  requests holds
\* the locals of the two: the offer toggled, the expired offers found, the
\* products still to resolve, and the result selectBestOfferForProduct has
\* computed from its read and not yet written.
NoCall == [pc |-> "idle", offer |-> 1, expired |-> {}, queue |-> <<>>,
           best |-> Null, discountedPrice |-> Null]

Callers == {"toggle", "sweep"}

\* The position after the list update or after a write: the next product to
\* resolve, or the end of the handler.
AfterQueue(queue) == IF queue = <<>> THEN "done" ELSE "read"

\* toggleOfferList: Offer.findById, isActive flipped, offer.save().
ToggleSaveOffer(o) ==
  /\ requests.toggle.pc = "idle"
  /\ offers[o].exists
  /\ offers' = [offers EXCEPT ![o].isActive = ~@]
  /\ requests' = [requests EXCEPT !.toggle = [NoCall EXCEPT !.pc = "list", !.offer = o]]
  /\ UNCHANGED <<products, ops, resolved, orders, wallets, coupons, response, audit>>

\* toggleOfferList: the offer, as saved, is added to or pulled from
\* applicableOffers of its target products.
ToggleUpdateLists ==
  LET r == requests.toggle
      off == offers[r.offer]
      active == off.isActive
      ps == TargetProducts(products, off.type, off.targetId)
      LOCAL pull(s) == Pull(s, {r.offer})
      LOCAL add(s) == AddToSet(s, r.offer)
      LOCAL push(s) == Append(s, r.offer)
  IN /\ r.pc = "list"
     /\ products' = IF ~active THEN MapOffers(products, ps, pull)
                    ELSE IF off.type = "Product" THEN MapOffers(products, ps, add)
                    ELSE MapOffers(products, ps, push)
     /\ requests' = [requests EXCEPT !.toggle =
                       [r EXCEPT !.queue = SetToSeq(ps), !.pc = AfterQueue(SetToSeq(ps))]]
     /\ UNCHANGED <<offers, ops, resolved, orders, wallets, coupons, response, audit>>

\* expiredOffersJob: Offer.find of the offers whose endDate has passed; the
\* job returns when there is none.
SweepFind ==
  /\ requests.sweep.pc = "idle"
  /\ requests' = [requests EXCEPT !.sweep =
                    [NoCall EXCEPT !.expired = ExpiredSet(offers),
                                   !.pc = IF ExpiredSet(offers) = {} THEN "done"
                                          ELSE "deactivate"]]
  /\ UNCHANGED <<products, offers, ops, resolved, orders, wallets, coupons, response, audit>>

\* expiredOffersJob: Offer.updateMany sets isActive false on the offers found.
SweepDeactivate ==
  LET r == requests.sweep
  IN /\ r.pc = "deactivate"
     /\ offers' = [o \in Offers |->
                     IF o \in r.expired THEN [offers[o] EXCEPT !.isActive = FALSE]
                     ELSE offers[o]]
     /\ requests' = [requests EXCEPT !.sweep = [r EXCEPT !.pc = "pull"]]
     /\ UNCHANGED <<products, ops, resolved, orders, wallets, coupons, response, audit>>

\* expiredOffersJob: $pull of the expired ids from the products of the
\* expired offers' brands and targets.
SweepPull ==
  LET r == requests.sweep
      affected == UNION {TargetProducts(products, offers[o].type, offers[o].targetId) :
                           o \in r.expired}
      LOCAL pull(s) == Pull(s, r.expired)
  IN /\ r.pc = "pull"
     /\ products' = MapOffers(products, affected, pull)
     /\ requests' = [requests EXCEPT !.sweep =
                       [r EXCEPT !.queue = SetToSeq(affected),
                                 !.pc = AfterQueue(SetToSeq(affected))]]
     /\ UNCHANGED <<offers, ops, resolved, orders, wallets, coupons, response, audit>>

\* selectBestOfferForProduct, first await: Product.findById with
\* applicableOffers populated; the best offer is computed on the loaded
\* document.
ResolveRead(c) ==
  LET r == requests[c]
      p == Head(r.queue)
      after == selectBestOfferForProduct(products, offers, p)
  IN /\ r.pc = "read"
     /\ requests' = [requests EXCEPT ![c] =
                       [r EXCEPT !.pc = "write", !.best = after[p].bestOffer,
                                 !.discountedPrice = after[p].discountedPrice]]
     /\ UNCHANGED <<products, offers, ops, resolved, orders, wallets, coupons,
                    response, audit>>

\* selectBestOfferForProduct, second await: Product.findOneAndUpdate writes
\* the bestOffer and discountedPrice computed from the read.
ResolveWrite(c) ==
  LET r == requests[c]
      p == Head(r.queue)
  IN /\ r.pc = "write"
     /\ products' = IF products[p].exists
                    THEN [products EXCEPT ![p].bestOffer = r.best,
                                          ![p].discountedPrice = r.discountedPrice]
                    ELSE products
     /\ requests' = [requests EXCEPT ![c] =
                       [r EXCEPT !.queue = Tail(@), !.pc = AfterQueue(Tail(r.queue))]]
     /\ UNCHANGED <<offers, ops, resolved, orders, wallets, coupons, response, audit>>

\* Both products of the brand, a 10% offer on product 1 and a 10% offer on
\* the brand, both running.
SweepCatalogue ==
  LET c1 == Catalogue
      c2 == AddOfferEffect(c1.prods, c1.offs, 2, "Brand", 1, "percentage", 10, TRUE)
  IN [prods |-> c2.prods, offs |-> c2.offs]

InitSweep ==
  /\ products = SweepCatalogue.prods
  /\ offers = SweepCatalogue.offs
  /\ ops = 0
  /\ resolved = {}
  /\ orders = <<>>
  /\ wallets = InitWallets
  /\ coupons = InitCoupons
  /\ requests = [c \in Callers |-> NoCall]
  /\ response = [op |-> "none", error |-> "none"]
  /\ audit = <<>>

NextSweep ==
  \/ \E o \in Offers : TimePasses(o)
  \/ \E o \in Offers : ToggleSaveOffer(o)
  \/ ToggleUpdateLists
  \/ SweepFind
  \/ SweepDeactivate
  \/ SweepPull
  \/ \E c \in Callers : ResolveRead(c)
  \/ \E c \in Callers : ResolveWrite(c)

SpecSweep == InitSweep /\ [][NextSweep]_vars

\* ------------------------------------------------------------ claims C1-C3
\* Positions of applicableOffers of product p that hold an active offer.
ActiveIdx(p) ==
  {i \in 1..Len(products[p].applicableOffers) :
      LET o == products[p].applicableOffers[i]
      IN offers[o].exists /\ offers[o].isActive}

DiscountAt(p, i) ==
  DiscountFine(products[p].price, offers[products[p].applicableOffers[i]])

\* Position i holds the greatest discount and is the first to hold it.
FirstMaxIdx(p, i) ==
  /\ i \in ActiveIdx(p)
  /\ \A j \in ActiveIdx(p) :
        /\ DiscountAt(p, j) <= DiscountAt(p, i)
        /\ (j < i => DiscountAt(p, j) < DiscountAt(p, i))

\* C1: after selectBestOfferForProduct has stored its result for a product,
\* bestOffer is the active offer of applicableOffers with the greatest
\* absolute discount, the first in list order among equals, and is null only
\* when the list holds no active offer.
C1_BestOfferIsFirstMax ==
  \A p \in resolved :
     IF ActiveIdx(p) = {} THEN IsNull(products[p].bestOffer)
     ELSE /\ ~IsNull(products[p].bestOffer)
          /\ \E i \in ActiveIdx(p) :
                /\ FirstMaxIdx(p, i)
                /\ products[p].applicableOffers[i] = Val(products[p].bestOffer)

\* C1 witness: a resolved product holds two different active offers of equal
\* discount, and the earlier one is stored.
C1_Witness ==
  \E p \in resolved : \E i, j \in ActiveIdx(p) :
     /\ i < j
     /\ products[p].applicableOffers[i] # products[p].applicableOffers[j]
     /\ DiscountAt(p, i) = DiscountAt(p, j)
     /\ FirstMaxIdx(p, i)
     /\ products[p].bestOffer = Some(products[p].applicableOffers[i])

\* C2: for every product, discountedPrice is null exactly when bestOffer is.
C2_DiscountedPriceNullIffBestOfferNull ==
  \A p \in Products :
     products[p].exists =>
        (IsNull(products[p].discountedPrice) <=> IsNull(products[p].bestOffer))

\* C3: whenever bestOffer is set, discountedPrice is the current price minus
\* the current discount of that offer, floored at 0 (to two decimals).
C3_DiscountedPriceIsCurrent ==
  \A p \in Products :
     (products[p].exists /\ ~IsNull(products[p].bestOffer)) =>
        products[p].discountedPrice =
          Some(ToFixed2(MaxInt(products[p].price * 100
                 - DiscountFine(products[p].price, offers[Val(products[p].bestOffer)]), 0)))


\* ----------------------------------------------------------- claims C4-C7, C10
OrderItemIds(o) == 1..Len(orders[o].orderItems)

\* What the pre-save hook keeps: the stored finalPrice is that of the items
\* not Cancelled less their share of the coupon discount.
FinalPriceIsHookPrice ==
  \A o \in 1..Len(orders) : orders[o].finalPrice = HookFinalPrice(orders[o], TRUE)

\* C4: every stored order has
\* finalPrice == max(0, round(totalAmount - totalDiscount - couponDiscount)),
\* at creation and after every later mutation.
C4_FinalPriceFormula ==
  \A o \in 1..Len(orders) :
    orders[o].finalPrice =
      MaxInt(0, RoundRupee(orders[o].totalAmount - orders[o].totalDiscount
                           - orders[o].couponDiscount))

AllCancelledOrReturned(o) ==
  \A i \in OrderItemIds(o) : orders[o].orderItems[i].status \in {"Cancelled", "Returned"}

\* C5: once every item of an order is Cancelled or Returned, each ordered
\* quantity has been put back exactly once: the order holds no unit of any
\* product's stock, and has put back no more than it took.
C5_StockConservation ==
  \A o \in 1..Len(orders) :
    AllCancelledOrReturned(o) => \A p \in Products : audit[o].held[p] = 0

PendingGatewayOrder(o, p) ==
  /\ orders[o].paymentMethod = "Razorpay"
  /\ orders[o].paymentStatus = "Pending"
  /\ FindItem(orders[o], p) # 0

\* C6: reservedStock is never negative, and is 0 whenever no order with a
\* pending Razorpay payment references the product.
C6_ReservedStock ==
  \A p \in Products :
    /\ products[p].reservedStock >= 0
    /\ (~\E o \in 1..Len(orders) : PendingGatewayOrder(o, p))
         => products[p].reservedStock = 0

\* Once responseSent is true, a further approve or reject of the item is
\* rejected with an error and changes nothing (the first half of C7).
ProcessedReturnIsFinal ==
  [][\A o \in OrderIds, p \in Products, action \in {"approve", "reject"} :
       ( /\ o <= Len(orders)
         /\ FindItem(orders[o], p) # 0
         /\ orders[o].orderItems[FindItem(orders[o], p)].returnRequest.responseSent
         /\ RequestReturnAdmin(o, p, action) )
       => /\ response'.error # "none"
          /\ UNCHANGED <<products, coupons, wallets, orders, audit>>]_vars

\* C7: over any sequence of return approvals, user cancels and admin status
\* updates, the price of an order item is credited to the wallet as a refund
\* at most once.
C7_RefundedAtMostOnce ==
  \A o \in 1..Len(orders) : \A i \in OrderItemIds(o) : audit[o].refunds[i] <= 1

\* C10: a placeOrder that fails on an item (product missing, or stock below
\* the quantity) leaves the stock of every product as it was before the call.
C10_FailedItemLeavesStock ==
  [][\A u \in Users, items \in ItemLists, method \in Methods,
        coupon \in CouponCodes, addrOk \in BOOLEAN :
       ( /\ PlaceOrder(u, items, method, coupon, addrOk)
         /\ response'.error \in {"Product not found", "Insufficient stock"} )
       => \A p \in Products : products'[p].stock = products[p].stock]_vars


\* ---------------------------------------------------------------- claims C8-C9
RECURSIVE SumTimesUsed(_, _)
SumTimesUsed(usersUsed, us) ==
  IF usersUsed = <<>> THEN 0
  ELSE (IF Head(usersUsed).userId \in us THEN Head(usersUsed).timesUsed ELSE 0)
       + SumTimesUsed(Tail(usersUsed), us)

\* C8: for every coupon and user, the uses recorded for the user in usersUsed
\* never exceed perUserLimit, also when placeOrder requests of the same user
\* with the same coupon interleave.
C8_PerUserLimit ==
  \A c \in Coupons : \A u \in Users :
    SumTimesUsed(coupons[c].usersUsed, {u}) <= coupons[c].perUserLimit

\* C9: for every coupon, the sum of timesUsed over all entries of usersUsed
\* never exceeds usageLimit.
C9_UsageLimit ==
  \A c \in Coupons : SumTimesUsed(coupons[c].usersUsed, Users) <= coupons[c].usageLimit


\* ------------------------------------------------------------- claims C11-C20
\* The errors placeOrder throws after the item loop.
LateErrors ==
  {"Invalid coupon code", "Coupon no longer active", "Coupon expired",
   "Minimum order amount", "Coupon usage limit reached", "Address not found",
   "Insufficient wallet balance"}

\* C11: a placeOrder that fails after the item loop (coupon checks, address,
\* wallet balance) has persisted nothing: the stock of every product, the
\* usersUsed of every coupon, the balance and ledger of every wallet and the
\* orders are as before the call.
C11_LateFailurePersistsNothing ==
  [][\A u \in Users, items \in ItemLists, method \in Methods,
        coupon \in CouponCodes, addrOk \in BOOLEAN :
       ( /\ PlaceOrder(u, items, method, coupon, addrOk)
         /\ response'.error \in LateErrors )
       => /\ \A p \in Products : products'[p].stock = products[p].stock
          /\ \A c \in Coupons : coupons'[c].usersUsed = coupons[c].usersUsed
          /\ \A w \in Users : /\ wallets'[w].balance = wallets[w].balance
                              /\ wallets'[w].transactions = wallets[w].transactions
          /\ orders' = orders]_vars


\* The rules of C12 as stated, first match first.
StatedRule(st) ==
  IF st = {"Cancelled"} THEN "Cancelled"
  ELSE IF st = {"Returned"} THEN "Returned"
  ELSE IF st = {"Return Rejected"} THEN "Return Rejected"
  ELSE IF "Return Requested" \in st THEN "Return Requested"
  ELSE IF st = {"Delivered", "Cancelled"} THEN "Partially Cancelled"
  ELSE IF st = {"Delivered"} THEN "Delivered"
  ELSE IF st \subseteq {"Shipped", "Cancelled"} THEN "Shipped"
  ELSE IF st \subseteq {"Pending", "Processing", "Cancelled"} THEN "Processing"
  ELSE IF {"Shipped", "Delivered"} \subseteq st THEN "Partially Delivered"
  ELSE IF {"Cancelled", "Delivered"} \subseteq st THEN "Partially Cancelled"
  ELSE IF "Returned" \in st /\ ("Shipped" \in st \/ "Delivered" \in st)
       THEN "Partially Returned"
  ELSE "Processing"

\* The same rules with two more before the last: Delivered and Return
\* Rejected both present -> Delivered; any item Shipped -> Shipped.
AmendedRule(st) ==
  IF st = {"Cancelled"} THEN "Cancelled"
  ELSE IF st = {"Returned"} THEN "Returned"
  ELSE IF st = {"Return Rejected"} THEN "Return Rejected"
  ELSE IF "Return Requested" \in st THEN "Return Requested"
  ELSE IF st = {"Delivered", "Cancelled"} THEN "Partially Cancelled"
  ELSE IF st = {"Delivered"} THEN "Delivered"
  ELSE IF st \subseteq {"Shipped", "Cancelled"} THEN "Shipped"
  ELSE IF st \subseteq {"Pending", "Processing", "Cancelled"} THEN "Processing"
  ELSE IF {"Shipped", "Delivered"} \subseteq st THEN "Partially Delivered"
  ELSE IF {"Cancelled", "Delivered"} \subseteq st THEN "Partially Cancelled"
  ELSE IF "Returned" \in st /\ ("Shipped" \in st \/ "Delivered" \in st)
       THEN "Partially Returned"
  ELSE IF {"Delivered", "Return Rejected"} \subseteq st THEN "Delivered"
  ELSE IF "Shipped" \in st THEN "Shipped"
  ELSE "Processing"

\* C12 as stated: the stored orderStatus of every order is the first matching
\* rule of the stated list applied to its item statuses, otherwise Processing.
C12_StatusIsStatedRule ==
  \A o \in 1..Len(orders) :
    orders[o].orderStatus = StatedRule(Statuses(orders[o].orderItems))

\* C12 amended: the stored orderStatus of every order depends only on its item
\* statuses and is the first matching rule of the list with the two further
\* rules (Delivered with Return Rejected -> Delivered; any Shipped -> Shipped).
C12_StatusIsAmendedRule ==
  \A o \in 1..Len(orders) :
    orders[o].orderStatus = AmendedRule(Statuses(orders[o].orderItems))

\* An order of a delivered item and one whose return was rejected is saved
\* as Delivered.
C12_Witness ==
  \E o \in 1..Len(orders) :
    /\ Statuses(orders[o].orderItems) = {"Delivered", "Return Rejected"}
    /\ orders[o].orderStatus = "Delivered"


\* The pairs (current orderStatus, requested status) C13 names.
AdminPairs ==
  {<<"Processing", "Shipped">>, <<"Processing", "Cancelled">>,
   <<"Shipped", "Delivered">>, <<"Shipped", "Cancelled">>}

\* C13: updateOrderStatus succeeds exactly for the four pairs; for every other
\* pair it is rejected with an error and leaves orders (and their items),
\* stock and wallets unchanged.
C13_AdminTransitions ==
  [][\A o \in OrderIds, status \in AdminStatuses :
       (o <= Len(orders) /\ UpdateOrderStatus(o, status))
       => IF <<orders[o].orderStatus, status>> \in AdminPairs
          THEN /\ response'.error = "none"
               /\ Statuses(orders'[o].orderItems) \subseteq {status, "Cancelled"}
          ELSE /\ response'.error # "none"
               /\ UNCHANGED <<orders, products, wallets>>]_vars

\* An admin request on a Delivered order has been rejected.
C13_Witness ==
  /\ response = [op |-> "updateOrderStatus", error |-> "Invalid status transition"]
  /\ \E o \in 1..Len(orders) : orders[o].orderStatus = "Delivered"


\* C14: requestReturnOrder on an item whose status is not Delivered is
\* rejected and leaves the item unchanged, so an item enters Return Requested
\* only from Delivered.
C14_ReturnOnlyFromDelivered ==
  [][\A o \in OrderIds, p \in Products :
       ( /\ o <= Len(orders)
         /\ FindItem(orders[o], p) # 0
         /\ orders[o].orderItems[FindItem(orders[o], p)].status # "Delivered"
         /\ RequestReturnOrder(o, p) )
       => /\ response'.error # "none"
          /\ orders'[o].orderItems[FindItem(orders[o], p)]
               = orders[o].orderItems[FindItem(orders[o], p)]]_vars


\* C15: no cancelOrder call, for one item or for the whole order, moves an
\* item that is Shipped, Delivered, Returned, Return Requested or Return
\* Rejected to Cancelled.
C15_UserCancelKeepsShippedItems ==
  [][\A o \in OrderIds, p \in {0} \cup Products :
       (o <= Len(orders) /\ CancelOrder(o, p))
       => \A i \in OrderItemIds(o) :
            orders[o].orderItems[i].status \in
              {"Shipped", "Delivered", "Returned", "Return Requested", "Return Rejected"}
            => orders'[o].orderItems[i].status # "Cancelled"]_vars


\* round(itemTotalPrice - (itemTotalPrice / totalAmount) * couponDiscount),
\* rounded to a whole rupee, in paise.
ProportionalRefund(tp, ta, cd) == 100 * RoundDiv(tp * ta - tp * cd, 100 * ta)

LastCredit(u) ==
  LET t == wallets[u].transactions IN
  IF t # <<>> /\ t[Len(t)].type = "credit" THEN t[Len(t)].amount ELSE 0

\* C16: an accepted per-item cancelOrder on a Paid order that used a coupon
\* credits the wallet of the order's user with exactly
\* round(itemTotalPrice - (itemTotalPrice / totalAmount) * couponDiscount).
C16_ItemCancelRefund ==
  [][\A o \in OrderIds, p \in Products :
       ( /\ o <= Len(orders)
         /\ orders[o].paymentStatus = "Paid"
         /\ ~IsNull(orders[o].couponCode)
         /\ CancelOrder(o, p)
         /\ response'.error = "none" )
       => LET item == orders[o].orderItems[FindItem(orders[o], p)]
              u == orders[o].user
              refund == ProportionalRefund(item.totalPrice, orders[o].totalAmount,
                                           orders[o].couponDiscount)
          IN /\ wallets'[u].balance = wallets[u].balance + refund
             /\ wallets'[u].transactions =
                  Append(wallets[u].transactions, [type |-> "credit", amount |-> refund])
             /\ orders'[o].refundedAmount = orders[o].refundedAmount + refund]_vars

\* The 54.00 item of a paid order of 100.00 with a coupon of 10.00 has been
\* cancelled and 49.00 (48.60 rounded) credited.
C16_Witness ==
  /\ response = [op |-> "cancelOrder", error |-> "none"]
  /\ \E o \in 1..Len(orders) :
       /\ orders[o].paymentStatus = "Paid"
       /\ orders[o].totalAmount = 10000
       /\ orders[o].couponDiscount = 1000
       /\ orders[o].orderItems[1].status = "Cancelled"
       /\ orders[o].orderItems[2].status = "Pending"
       /\ orders[o].refundedAmount = 4900
       /\ LastCredit(orders[o].user) = 4900


\* C17: the refund an accepted return approval credits for an item equals the
\* refund per-item cancellation computes for the same order and item.
C17_ReturnRefundIsCancelRefund ==
  [][\A o \in OrderIds, p \in Products :
       ( /\ o <= Len(orders)
         /\ RequestReturnAdmin(o, p, "approve")
         /\ response'.error = "none" )
       => wallets'[orders[o].user].balance =
            wallets[orders[o].user].balance
            + CancelRefund(orders[o], orders[o].orderItems[FindItem(orders[o], p)])]_vars


\* C18: over any number of verifyRazorpay calls on an order, sequential or
\* interleaved, the stock/reservedStock adjustment of its items is applied at
\* most once: reservedStock of a product has gone down by at most the
\* quantity ordered (it is 0 when the order is placed).
C18_VerifyAppliedOnce ==
  \A o \in 1..Len(orders) : \A p \in Products :
    0 - products[p].reservedStock <= SumQty(orders[o].orderItems, p)

\* A verifyRazorpay call that finds the order Paid is rejected and changes
\* nothing (the last part of C18).
PaidVerifyIsRejected ==
  [][\A k \in RequestIds :
       ( /\ requests[k].pc = "findOrder"
         /\ requests[k].order <= Len(orders)
         /\ orders[requests[k].order].paymentStatus = "Paid"
         /\ VerifyFindOrder(k) )
       => /\ requests'[k].pc = "failed"
          /\ UNCHANGED <<products, orders, wallets, coupons>>]_vars


\* The ledger of a wallet: its completed credits less its completed debits.
RECURSIVE LedgerSum(_)
LedgerSum(txs) ==
  IF txs = <<>> THEN 0
  ELSE (IF Head(txs).type = "credit" THEN Head(txs).amount ELSE 0 - Head(txs).amount)
       + LedgerSum(Tail(txs))

\* C19: no wallet update is lost under any interleaving of debits and
\* credits: the balance of every wallet is what its ledger adds up to (the
\* opening balance is the first credit of the ledger).
C19_NoLostWalletUpdate ==
  \A u \in Users : wallets[u].exists =>
     wallets[u].balance = LedgerSum(wallets[u].transactions)

\* C20: the stock of a product is never negative.
C20_StockNeverNegative ==
  \A p \in Products : products[p].exists => products[p].stock >= 0


\* ================================================= claims C21 to C30
\* The amount of the transaction a step has pushed on the wallet of user u;
\* Null when the step pushed none.
Pushed(u) ==
  IF Len(wallets'[u].transactions) > Len(wallets[u].transactions)
  THEN Some(wallets'[u].transactions[Len(wallets'[u].transactions)].amount)
  ELSE Null

\* C21: the balance of every wallet stays at or above 0, and the refund a
\* per-item cancellation or a return approval credits for an item is at least
\* 0 and at most the totalPrice of that item.
C21_BalanceAndRefundBounds ==
  [][ /\ \A u \in Users : wallets'[u].balance >= 0
      /\ \A o \in OrderIds, p \in Products :
           ( /\ o <= Len(orders)
             /\ CancelOrder(o, p) \/ RequestReturnAdmin(o, p, "approve")
             /\ ~IsNull(Pushed(orders[o].user)) )
           => /\ Val(Pushed(orders[o].user)) >= 0
              /\ Val(Pushed(orders[o].user))
                   <= orders[o].orderItems[FindItem(orders[o], p)].totalPrice ]_vars


\* The step has pushed a credit on the wallet of user u.
Credited(u) ==
  /\ ~IsNull(Pushed(u))
  /\ wallets'[u].transactions[Len(wallets'[u].transactions)].type = "credit"

\* C22: refundedAmount is cumulative: every refund credited for an order, by
\* a per-item or whole-order cancellation, an admin cancellation or a return
\* approval, adds its amount to the order's refundedAmount, so that
\* refundedAmount is the sum of the refunds credited for the order.
C22_RefundedAmountAccumulates ==
  [][\A o \in OrderIds :
       (o <= Len(orders) /\ Credited(orders[o].user))
       => orders'[o].refundedAmount
            = orders[o].refundedAmount + Val(Pushed(orders[o].user))]_vars


\* The five fields of an order item that placeOrder snapshots.
Snapshot(item) ==
  <<item.product, item.quantity, item.price, item.discount, item.totalPrice>>

\* C23: every order item is stored with totalPrice = (price - discount) *
\* quantity, and no operation on an order that is there (a price edit, an
\* offer added, edited, toggled or expired, a cancellation, a return request,
\* approval or rejection, a payment verification, an admin status update)
\* changes the product, quantity, price, discount or totalPrice of an item.
C23_ItemSnapshotIsFixed ==
  [][ /\ Len(orders') >= Len(orders)
      /\ \A o \in 1..Len(orders') :
           \A i \in 1..Len(orders'[o].orderItems) :
              LET item == orders'[o].orderItems[i]
              IN item.totalPrice = (item.price - item.discount) * item.quantity
      /\ \A o \in 1..Len(orders) :
           /\ Len(orders'[o].orderItems) = Len(orders[o].orderItems)
           /\ \A i \in 1..Len(orders[o].orderItems) :
                Snapshot(orders'[o].orderItems[i]) = Snapshot(orders[o].orderItems[i])
    ]_vars

\* An item ordered at 60.00 with 6.00 off has been cancelled after the price
\* of its product was edited and its offer deactivated.
C23_Witness ==
  /\ Len(orders) = 1
  /\ response = [op |-> "cancelOrder", error |-> "none"]
  /\ orders[1].orderItems[1].status = "Cancelled"
  /\ orders[1].orderItems[1].product = 1
  /\ orders[1].orderItems[1].price = 6000
  /\ orders[1].orderItems[1].discount = 600
  /\ products[1].price # 6000


\* C24: a verifyRazorpay request moves an order to Paid only when the gateway
\* order id it confirms is the razorpayOrderId stored on that order.
C24_PaidOnlyForOwnGatewayOrder ==
  [][\A u \in Users, o \in OrderIds, gw \in GatewayIds, sigOk \in BOOLEAN :
       ( /\ o <= Len(orders)
         /\ orders[o].paymentStatus # "Paid"
         /\ VerifyRazorpay(u, o, gw, sigOk)
         /\ orders'[o].paymentStatus = "Paid" )
       => orders[o].razorpayOrderId = Some(gw)]_vars


\* C25: when an accepted cancelOrder leaves no active item (every item is
\* Cancelled, Returned or Return Rejected), and after every accepted
\* whole-order cancellation, the stored orderStatus is Cancelled.
C25_CancelledWhenNoneActive ==
  [][\A o \in OrderIds, p \in {0} \cup Products :
       ( /\ o <= Len(orders)
         /\ CancelOrder(o, p)
         /\ response'.error = "none"
         /\ \/ p = 0
            \/ Statuses(orders'[o].orderItems)
                 \subseteq {"Cancelled", "Returned", "Return Rejected"} )
       => orders'[o].orderStatus = "Cancelled"]_vars


\* C26: once the expiry sweep and a concurrent toggleOfferList have both
\* finished, the bestOffer and discountedPrice stored on every product are
\* what selectBestOfferForProduct computes from the offers and
\* applicableOffers as they then are.
C26_SweepAndResolverConverge ==
  (requests.toggle.pc = "done" /\ requests.sweep.pc = "done")
  => \A p \in Products :
       LET fresh == selectBestOfferForProduct(products, offers, p)
       IN /\ products[p].bestOffer = fresh[p].bestOffer
          /\ products[p].discountedPrice = fresh[p].discountedPrice


\* Offer o is on applicableOffers of every product it applies to.  A manual
\* deactivation (toggleOfferList) pulls the offer from those lists, so a
\* listed offer has not been manually deactivated.
Listed(prods, offs, o) ==
  LET ps == TargetProducts(prods, offs[o].type, offs[o].targetId)
  IN ps # {} /\ \A p \in ps : o \in SeqRange(prods[p].applicableOffers)

\* C27: isActive follows the dates: an offer whose start date has been
\* reached and whose end date has not passed, and which has not been manually
\* deactivated, is active (so an offer created with a future start becomes
\* active when that date comes), and toggleOfferList never makes an offer
\* active whose end date has passed.
C27_ActiveFollowsDates ==
  [][ /\ \A o \in Offers :
           ( /\ offers'[o].exists
             /\ offers'[o].phase = "current"
             /\ Listed(products', offers', o) )
           => offers'[o].isActive
      /\ \A o \in Offers :
           (offers[o].exists /\ offers[o].phase = "expired" /\ ToggleOfferList(o))
           => ~offers'[o].isActive ]_vars


\* C28: when a product is created for a brand that has an active Brand
\* offer, the created product holds that offer on applicableOffers, and its
\* bestOffer (not null) and discountedPrice are those
\* selectBestOfferForProduct computes for it.
C28_NewProductIsResolved ==
  [][\A p \in Products, price \in Prices :
       AddProduct(p, price)
       => \A o \in Offers :
            ( /\ offers[o].exists /\ offers[o].type = "Brand"
              /\ offers[o].targetId = BrandOf(p) /\ offers[o].isActive )
            => /\ o \in SeqRange(products'[p].applicableOffers)
               /\ ~IsNull(products'[p].bestOffer)
               /\ products' = selectBestOfferForProduct(products', offers', p)]_vars


\* The amounts of the transactions of one type on a ledger, added up.
RECURSIVE SumOfType(_, _)
SumOfType(txs, type) ==
  IF txs = <<>> THEN 0
  ELSE (IF Head(txs).type = type THEN Head(txs).amount ELSE 0)
       + SumOfType(Tail(txs), type)

\* The refunds credited to user u: the credits on the wallet other than the
\* money the user had added before the first order.
RefundsOf(u) ==
  SumOfType(wallets[u].transactions, "credit")
  - SumOfType(InitWallets[u].transactions, "credit")

\* What the user has paid for order o, at most: the debits on the wallet for
\* an order paid from the wallet; for an order confirmed by the gateway, the
\* price of all its items, which no charge at placement or retry exceeds;
\* nothing for an order that never became Paid.
PaidAtMost(o) ==
  IF orders[o].paymentMethod = "Wallet"
  THEN SumOfType(wallets[orders[o].user].transactions, "debit")
  ELSE IF orders[o].paymentStatus = "Paid" THEN SumTotalPrice(orders[o].orderItems, {})
  ELSE 0

\* C29: the refunds credited to the user's wallet for an order never add up
\* to more than the user paid for it.
C29_RefundsWithinPayment ==
  \A o \in 1..Len(orders) : RefundsOf(orders[o].user) <= PaidAtMost(o)


\* C30: Cancelled, Returned and Return Rejected are terminal: no operation
\* changes the status of an item that has one of them.
C30_TerminalItemStatuses ==
  [][\A o \in 1..Len(orders) : \A i \in OrderItemIds(o) :
       orders[o].orderItems[i].status \in {"Cancelled", "Returned", "Return Rejected"}
       => orders'[o].orderItems[i].status = orders[o].orderItems[i].status]_vars

====
